---------------------------- MODULE Spec2Model ----------------------------
(***************************************************************************)
(* The composed ("after") picker of jotai-composition: three jotai atoms   *)
(* (input options, hidden map, selected map), the derived options atom     *)
(* that merges them, the Search component with its filtering effect, and   *)
(* the List / ListItem components with the per-item toggle.  Beside it:    *)
(* a second Picker instance, and the monolithic ("before") picker with     *)
(* search, each in a specification of its own.                             *)
(*                                                                         *)
(* JavaScript values of the optional boolean fields are modelled by the    *)
(* three strings "undefined", "true" and "false", so that a missing map    *)
(* entry (a lookup that yields undefined) is told apart from a stored      *)
(* false.  Names are sequences of one-character strings so that            *)
(* String.prototype.includes is computed, not assumed.  A                  *)
(* Record<string, boolean> is a function on Names whose value "undefined"  *)
(* stands for "no such key"; names are ordinary keys (no name is a member  *)
(* of Object.prototype).                                                   *)
(***************************************************************************)
EXTENDS Naturals, Sequences, FiniteSets

\* Longest list of options the owner of the picker passes in.
MaxLen == 2

\* The count of Hidden Map writes after one operation is kept up to this.
MaxWrites == 2

VARIABLES
    inputOptionsAtom,   \* value of inputOptionsAtom in the store
    hiddenAtom,         \* value of hiddenAtom      (Record<string, boolean>)
    selectedAtom,       \* value of selectedAtom    (Record<string, boolean>)
    search,             \* Search's useState value
    options,            \* value of optionsAtom seen by the last render
    selected,           \* value of selectedAtom seen by the last render
    effectPending,      \* Search's effect is scheduled (a dependency changed)
    call,               \* history: the last operation on the picker
    focus,              \* the Picker instance the variables above belong to
    background,         \* the atoms and search text of the other instance
    before              \* the monolithic Picker: its options prop and useStates

vars == <<inputOptionsAtom, hiddenAtom, selectedAtom, search, options,
          selected, effectPending, call, focus, background, before>>

-----------------------------------------------------------------------------
(* JavaScript values and strings *)

Undefined == "undefined"

JSValues == {"undefined", "true", "false"}

\* a TLA+ boolean as a JavaScript boolean
JSBool(b) == IF b THEN "true" ELSE "false"

\* if (v) ...
Truthy(v) == v = "true"

\* !!v
ToBoolean(v) == JSBool(Truthy(v))

\* !v
JSNot(v) == JSBool(~Truthy(v))

\* a containment test for which the empty text matches nothing
NonEmptyIncludes(s, t) ==
    /\ Len(t) > 0
    /\ \E i \in 0..Len(s) :
          /\ i + Len(t) <= Len(s)
          /\ SubSeq(s, i + 1, i + Len(t)) = t

\* s.includes(t): t occurs in s as a contiguous, case-sensitive substring
Includes(s, t) ==
    \E i \in 0..Len(s) :
        /\ i + Len(t) <= Len(s)
        /\ SubSeq(s, i + 1, i + Len(t)) = t

-----------------------------------------------------------------------------
(* Inputs *)

Names == { <<"a">>, <<"A", "b">> }

\* Option: a name, the caller's payload, and the optional flags of the type
Opt(n, v, h, s) == [name |-> n, value |-> v, hidden |-> h, selected |-> s]

Items ==
    { Opt(<<"a">>, "one", Undefined, Undefined),
      Opt(<<"A", "b">>, "two", Undefined, Undefined),
      Opt(<<"a">>, "three", "true", "true") }

SourceLists == UNION { [1..n -> Items] : n \in 0..MaxLen }

SearchTexts == { <<>>, <<"a">>, <<"b">>, <<"b", "a">> }

\* {} as a Record<string, boolean>
EmptyRecord == [n \in Names |-> Undefined]

\* op: the operation; items: the list passed to setSourceList; itemName,
\* currentFlag: the option toggled and the flag it showed; before: the Selected
\* Map entry of itemName before the toggle; again: the operation before it
\* was a toggle of the same name; writes: how often Search's effect has
\* written the Hidden Map since the operation
NoCall == [op |-> "initialize", items |-> <<>>, itemName |-> <<>>,
           currentFlag |-> Undefined, before |-> Undefined, again |-> FALSE,
           writes |-> 0]

-----------------------------------------------------------------------------
(* combinedUpdatesAtom *)

\* a merge that drops the hidden options from the derived list
FilteringGet(opts, hid, sel) ==
    SelectSeq([k \in 1..Len(opts) |->
                  [opts[k] EXCEPT !.hidden = hid[opts[k].name],
                                   !.selected = sel[opts[k].name]]],
              LAMBDA o : ~Truthy(o.hidden))

\* a merge whose spread comes last: { hidden, selected, ...o }, so that a flag
\* the option itself carries wins over the map's
SpreadLastGet(opts, hid, sel) ==
    [k \in 1..Len(opts) |->
        [opts[k] EXCEPT
            !.hidden = IF opts[k].hidden # Undefined
                       THEN opts[k].hidden ELSE hid[opts[k].name],
            !.selected = IF opts[k].selected # Undefined
                         THEN opts[k].selected ELSE sel[opts[k].name]]]

\* a merge that falls back on the option's own flag when the map has no
\* entry: hidden[o.name] ?? o.hidden
FallbackGet(opts, hid, sel) ==
    [k \in 1..Len(opts) |->
        [opts[k] EXCEPT
            !.hidden = IF hid[opts[k].name] # Undefined
                       THEN hid[opts[k].name] ELSE opts[k].hidden,
            !.selected = IF sel[opts[k].name] # Undefined
                         THEN sel[opts[k].name] ELSE opts[k].selected]]

\* the read function of the derived atom
combinedUpdatesAtomGet(opts, hid, sel) ==
    [k \in 1..Len(opts) |->
        [opts[k] EXCEPT !.hidden = hid[opts[k].name],
                         !.selected = sel[opts[k].name]]]

\* a write that appends the update to the list already held
AppendingSet(old, update) == old \o update

\* a write that ignores an empty update
NonEmptySet(old, update) == IF Len(update) = 0 THEN old ELSE update

\* the write function of the derived atom: the new value of inputOptionsAtom
combinedUpdatesAtomSet(old, update) == update

\* what useAtomValue(optionsAtom) returns for the store's current values
MergedView == combinedUpdatesAtomGet(inputOptionsAtom, hiddenAtom, selectedAtom)

-----------------------------------------------------------------------------
(* Rendering: every component re-reads the store after a store write *)

\* a render that keeps the list it computed earlier while the Source List is
\* the same: what it shows depends on the maps that list was computed from
MemoizedRender ==
    /\ options' = IF inputOptionsAtom' = inputOptionsAtom
                  THEN options
                  ELSE combinedUpdatesAtomGet(inputOptionsAtom', hiddenAtom', selectedAtom')
    /\ selected' = selectedAtom'

Render ==
    /\ options' = combinedUpdatesAtomGet(inputOptionsAtom', hiddenAtom', selectedAtom')
    /\ selected' = selectedAtom'

-----------------------------------------------------------------------------
(* Search *)

\* the reduce with the negation left out
UnnegatedUpdates(opts, text) ==
    [n \in Names |->
        IF \E k \in 1..Len(opts) : opts[k].name = n
        THEN JSBool(Includes(n, text))
        ELSE Undefined]

\* a reduce that gives every known name an entry, listed or not
AllNamesUpdates(opts, text) ==
    [n \in Names |-> JSNot(JSBool(Includes(n, text)))]

\* options.reduce(...): hidden[current.name] = !current.name.includes(search)
SearchUpdates(opts, text) ==
    [n \in Names |->
        IF \E k \in 1..Len(opts) : opts[k].name = n
        THEN JSNot(JSBool(Includes(n, text)))
        ELSE Undefined]

\* a comparison that looks at the first option only
FirstOnlySome(opts, updates) ==
    /\ Len(opts) > 0
    /\ ToBoolean(opts[1].hidden) # updates[opts[1].name]

\* no comparison: the map is written whenever there are options
AlwaysSome(opts, updates) == Len(opts) > 0

\* the comparison without the !! coercion
UncoercedSome(opts, updates) ==
    \E k \in 1..Len(opts) : opts[k].hidden # updates[opts[k].name]

\* options.some(o => !!o.hidden !== updates[o.name])
SearchSome(opts, updates) ==
    \E k \in 1..Len(opts) : ToBoolean(opts[k].hidden) # updates[opts[k].name]

\* onChange={e => setSearch(e.target.value)}
SearchOnChange(text) ==
    /\ ~effectPending
    /\ text # search
    /\ search' = text
    /\ UNCHANGED <<inputOptionsAtom, hiddenAtom, selectedAtom>>
    /\ Render
    /\ UNCHANGED <<focus, background>>
    /\ effectPending' = TRUE
    /\ call' = [NoCall EXCEPT !.op = "onSearchTextChanged"]

\* the body of Search's useEffect, run for the closure of the last render
SearchEffect ==
    /\ effectPending
    /\ LET updates == SearchUpdates(options, search)
       IN  IF SearchSome(options, updates)
           THEN /\ hiddenAtom' = updates
                /\ effectPending' = TRUE
                /\ call' = [call EXCEPT
                               !.writes = IF @ < MaxWrites THEN @ + 1 ELSE @]
           ELSE /\ hiddenAtom' = hiddenAtom
                /\ effectPending' = FALSE
                /\ call' = call
    /\ UNCHANGED <<inputOptionsAtom, selectedAtom, search>>
    /\ Render
    /\ UNCHANGED <<focus, background>>

-----------------------------------------------------------------------------
(* Picker *)

\* a Picker that builds its state anew whenever the options change
ReinitializingPickerEffect(items) ==
    /\ ~effectPending
    /\ inputOptionsAtom' = combinedUpdatesAtomSet(inputOptionsAtom, items)
    /\ hiddenAtom' = EmptyRecord
    /\ selectedAtom' = EmptyRecord
    /\ UNCHANGED search
    /\ Render
    /\ UNCHANGED <<focus, background>>
    /\ effectPending' = TRUE
    /\ call' = [NoCall EXCEPT !.op = "setSourceList", !.items = items]

\* a Picker whose new list does not reach Search's effect, as when the
\* effect's dependency list leaves out options
UnobservedPickerEffect(items) ==
    /\ ~effectPending
    /\ inputOptionsAtom' = combinedUpdatesAtomSet(inputOptionsAtom, items)
    /\ UNCHANGED <<hiddenAtom, selectedAtom, search>>
    /\ Render
    /\ UNCHANGED <<focus, background>>
    /\ effectPending' = FALSE
    /\ call' = [NoCall EXCEPT !.op = "setSourceList", !.items = items]

\* useEffect(() => { setOptions(options) }, [options, setOptions])
PickerEffect(items) ==
    /\ ~effectPending
    /\ inputOptionsAtom' = combinedUpdatesAtomSet(inputOptionsAtom, items)
    /\ UNCHANGED <<hiddenAtom, selectedAtom, search>>
    /\ Render
    /\ UNCHANGED <<focus, background>>
    /\ effectPending' = TRUE
    /\ call' = [NoCall EXCEPT !.op = "setSourceList", !.items = items]

-----------------------------------------------------------------------------
(* List and ListItem *)

\* a ListItem without the early return
UnguardedListItem(o) == << [option |-> o, checked |-> ToBoolean(o.selected)] >>

\* what ListItem renders for one option: nothing, or one row with a checkbox
ListItem(o) ==
    IF Truthy(o.hidden)
    THEN <<>>
    ELSE << [option |-> o, checked |-> ToBoolean(o.selected)] >>

\* options.map(o => <ListItem option={o} />): the rows in document order
RECURSIVE List(_)
List(opts) ==
    IF Len(opts) = 0 THEN <<>>
    ELSE ListItem(opts[1]) \o List([k \in 1..(Len(opts) - 1) |-> opts[k + 1]])

\* a toggle that forgets the spread of the previous map
UnspreadToggle(sel, o) == [EmptyRecord EXCEPT ![o.name] = JSNot(o.selected)]

\* a toggle that only ever selects
SelectOnly(sel, o) == [sel EXCEPT ![o.name] = "true"]

\* setSelected({ ...selected, [o.name]: !o.selected })
ToggleSelectedValue(sel, o) == [sel EXCEPT ![o.name] = JSNot(o.selected)]

\* a click on the k-th rendered option runs ListItem's toggleSelected
ToggleSelected(k) ==
    /\ ~effectPending
    /\ k \in 1..Len(options)
    /\ ListItem(options[k]) # <<>>
    /\ selectedAtom' = ToggleSelectedValue(selected, options[k])
    /\ UNCHANGED <<inputOptionsAtom, hiddenAtom, search>>
    /\ Render
    /\ UNCHANGED <<focus, background>>
    /\ effectPending' = TRUE
    /\ call' = [NoCall EXCEPT !.op = "toggleSelected",
                              !.itemName = options[k].name,
                              !.currentFlag = options[k].selected,
                              !.before = selectedAtom[options[k].name],
                              !.again = /\ call.op = "toggleSelected"
                                        /\ call.itemName = options[k].name]

\* two toggleSelected closures of one render run before the list renders
\* again (one batched update; j = k is a click on the checkbox, which reaches
\* the input's onChange and the button's onClick): the first call stores
\* ToggleSelectedValue(selected, options[j]); the second spreads the same
\* `selected` of that render, and what it stores replaces the first value
ToggleSelectedBatch(j, k) ==
    /\ ~effectPending
    /\ j \in 1..Len(options)
    /\ k \in 1..Len(options)
    /\ ListItem(options[j]) # <<>>
    /\ ListItem(options[k]) # <<>>
    /\ selectedAtom' = ToggleSelectedValue(selected, options[k])
    /\ UNCHANGED <<inputOptionsAtom, hiddenAtom, search>>
    /\ Render
    /\ UNCHANGED <<focus, background>>
    /\ effectPending' = TRUE
    /\ call' = [NoCall EXCEPT !.op = "toggleSelectedBatch",
                              !.items = <<options[j], options[k]>>,
                              !.itemName = options[k].name,
                              !.currentFlag = options[k].selected,
                              !.before = selectedAtom[options[k].name]]

-----------------------------------------------------------------------------
(* The monolithic Picker (before/Picker.tsx with search) *)

\* a handler that only ever selects
SelectingHandleClick(prev, name) == [prev EXCEPT ![name] = "true"]

\* setSelectedItems(prev => ({ ...prev, [name]: !prev[name] }))
handleClick(prev, name) == [prev EXCEPT ![name] = JSNot(prev[name])]

\* options.filter(o => o.name.includes(search)).map(o => <Item ...>): the rows
\* in document order, each with the checked prop of its checkbox
BeforeRows ==
    LET shown == SelectSeq(before.options,
                           LAMBDA o : Includes(o.name, before.search))
    IN  [r \in 1..Len(shown) |->
            [option |-> shown[r], checked |-> before.selectedItems[shown[r].name]]]

\* the owner renders the Picker with a new options prop
BeforeProps(items) == before' = [before EXCEPT !.options = items]

\* onChange={e => setSearch(e.target.value)}
BeforeSearchOnChange(text) == before' = [before EXCEPT !.search = text]

\* a click on the r-th row outside its checkbox: the button's onClick
BeforeClick(r) ==
    before' = IF r \in 1..Len(BeforeRows)
              THEN [before EXCEPT
                      !.selectedItems = handleClick(@, BeforeRows[r].option.name)]
              ELSE before

\* a checkbox without a handler of its own: only the button's onClick runs
BeforeClickCheckboxOnce(r) ==
    before' = IF r \in 1..Len(BeforeRows)
              THEN [before EXCEPT
                      !.selectedItems = handleClick(@, BeforeRows[r].option.name)]
              ELSE before

\* a click on the checkbox of the r-th row: the input's onChange, then the
\* button's onClick; the two updater functions run one after the other
BeforeClickCheckbox(r) ==
    before' = IF r \in 1..Len(BeforeRows)
              THEN [before EXCEPT
                      !.selectedItems =
                          handleClick(handleClick(@, BeforeRows[r].option.name),
                                      BeforeRows[r].option.name)]
              ELSE before

\* the row at which the composed picker renders its k-th option
RowOf(k) == Len(List([i \in 1..k |-> options[i]]))


\* the Picker instances mounted
Pickers == { "first", "second" }

OtherPicker(p) == IF p = "first" THEN "second" ELSE "first"

\* one set of atoms kept at module level and used by every Picker
ModuleState(instance) ==
    [optionsAtom |-> <<"module", "optionsAtom">>,
     hiddenAtom |-> <<"module", "hiddenAtom">>,
     selectedAtom |-> <<"module", "selectedAtom">>]

\* useRef(initializeState()): every call of atom() makes a new atom object,
\* and a Picker instance keeps the ones of its first render.  An atom object
\* is the key of its value in the store; it is named here by the instance
\* that made it.
initializeState(instance) ==
    [optionsAtom |-> <<instance, "optionsAtom">>,
     hiddenAtom |-> <<instance, "hiddenAtom">>,
     selectedAtom |-> <<instance, "selectedAtom">>]

\* the values the store holds for the atoms of a Picker instance
StoreValues(p) ==
    [inputOptionsAtom |->
        IF initializeState(p).optionsAtom = initializeState(focus).optionsAtom
        THEN inputOptionsAtom ELSE background.inputOptionsAtom,
     hiddenAtom |->
        IF initializeState(p).hiddenAtom = initializeState(focus).hiddenAtom
        THEN hiddenAtom ELSE background.hiddenAtom,
     selectedAtom |->
        IF initializeState(p).selectedAtom = initializeState(focus).selectedAtom
        THEN selectedAtom ELSE background.selectedAtom]

\* what useAtomValue(state.optionsAtom) returns in a Picker instance
StoreMergedView(p) ==
    combinedUpdatesAtomGet(StoreValues(p).inputOptionsAtom,
                           StoreValues(p).hiddenAtom,
                           StoreValues(p).selectedAtom)

\* the user turns to the other Picker: from here on the operations are
\* those of its components, reading its atoms and its search text
SwitchSession ==
    /\ ~effectPending
    /\ focus' = OtherPicker(focus)
    /\ inputOptionsAtom' = StoreValues(OtherPicker(focus)).inputOptionsAtom
    /\ hiddenAtom' = StoreValues(OtherPicker(focus)).hiddenAtom
    /\ selectedAtom' = StoreValues(OtherPicker(focus)).selectedAtom
    /\ search' = background.search
    /\ background' = [inputOptionsAtom |-> inputOptionsAtom,
                      hiddenAtom |-> hiddenAtom,
                      selectedAtom |-> selectedAtom,
                      search |-> search]
    /\ Render
    /\ effectPending' =
          (options' # combinedUpdatesAtomGet(background.inputOptionsAtom,
                                             background.hiddenAtom,
                                             background.selectedAtom))
    /\ call' = [NoCall EXCEPT !.op = "switchSession"]

-----------------------------------------------------------------------------
(* initializeState, and the first render; Search's effect runs on mount *)

Init ==
    /\ inputOptionsAtom = <<>>
    /\ hiddenAtom = EmptyRecord
    /\ selectedAtom = EmptyRecord
    /\ search = <<>>
    /\ options = combinedUpdatesAtomGet(<<>>, EmptyRecord, EmptyRecord)
    /\ selected = EmptyRecord
    /\ effectPending = TRUE
    /\ call = NoCall
    /\ before = [options |-> <<>>, search |-> <<>>, selectedItems |-> EmptyRecord]
    /\ focus = "first"
    /\ background = [inputOptionsAtom |-> <<>>, hiddenAtom |-> EmptyRecord,
                     selectedAtom |-> EmptyRecord, search |-> <<>>]

Next ==
    \/ (\E items \in SourceLists : PickerEffect(items)) /\ UNCHANGED before
    \/ (\E text \in SearchTexts : SearchOnChange(text)) /\ UNCHANGED before
    \/ SearchEffect /\ UNCHANGED before
    \/ (\E k \in 1..MaxLen : ToggleSelected(k)) /\ UNCHANGED before

Spec == Init /\ [][Next]_vars

\* the picker when event handlers of one render can run in one batch
BatchedNext ==
    \/ Next
    \/ (\E j, k \in 1..MaxLen : ToggleSelectedBatch(j, k)) /\ UNCHANGED before

SpecBatched == Init /\ [][BatchedNext]_vars

\* the composed and the monolithic picker side by side, given the same
\* options, the same search texts and clicks on the same rows
BothNext ==
    \/ \E items \in SourceLists : PickerEffect(items) /\ BeforeProps(items)
    \/ \E text \in SearchTexts : SearchOnChange(text) /\ BeforeSearchOnChange(text)
    \/ SearchEffect /\ UNCHANGED before
    \/ \E k \in 1..MaxLen : ToggleSelected(k) /\ BeforeClick(RowOf(k))

SpecBoth == Init /\ [][BothNext]_vars

\* the same, with clicks on the checkboxes as well
BothCheckboxNext ==
    \/ BothNext
    \/ \E k \in 1..MaxLen : ToggleSelectedBatch(k, k) /\ BeforeClickCheckbox(RowOf(k))

SpecBothCheckbox == Init /\ [][BothCheckboxNext]_vars

\* the lists and texts given to the two Pickers of one page
SessionLists ==
    { << Opt(<<"a">>, "one", Undefined, Undefined),
         Opt(<<"A", "b">>, "two", Undefined, Undefined) >>,
      << Opt(<<"a">>, "three", "true", "true") >> }

SessionTexts == { <<>>, <<"b">> }

SessionsNext ==
    \/ (\E items \in SessionLists : PickerEffect(items)) /\ UNCHANGED before
    \/ (\E text \in SessionTexts : SearchOnChange(text)) /\ UNCHANGED before
    \/ SearchEffect /\ UNCHANGED before
    \/ (\E k \in 1..MaxLen : ToggleSelected(k)) /\ UNCHANGED before
    \/ SwitchSession /\ UNCHANGED before

SpecSessions == Init /\ [][SessionsNext]_vars

TypeOK ==
    /\ inputOptionsAtom \in SourceLists
    /\ hiddenAtom \in [Names -> JSValues]
    /\ selectedAtom \in [Names -> JSValues]
    /\ search \in SearchTexts
    /\ effectPending \in BOOLEAN

-----------------------------------------------------------------------------
(* Helpers of the properties *)

\* the names of a list of options
NamesOf(opts) == { opts[k].name : k \in 1..Len(opts) }

\* no operation is half-way: Search's effect has run to the end
Quiescent == ~effectPending

-----------------------------------------------------------------------------
(* Filter correctness *)

\* C1 (as stated): once onSearchTextChanged(text) has completed, the merged
\* hidden flag of every option is the boolean NOT (name contains text).
C1_HiddenIsNotContains ==
    (call.op = "onSearchTextChanged" /\ Quiescent) =>
        \A k \in 1..Len(MergedView) :
            MergedView[k].hidden = JSBool(~Includes(inputOptionsAtom[k].name, search))

\* C1 (amended): once onSearchTextChanged(text) has completed, the merged
\* hidden flag of every option, read as a boolean (a flag that is undefined
\* counts as false), is NOT (name contains text).
C1_HiddenTruthIsNotContains ==
    (call.op = "onSearchTextChanged" /\ Quiescent) =>
        \A k \in 1..Len(MergedView) :
            Truthy(MergedView[k].hidden) <=> ~Includes(inputOptionsAtom[k].name, search)

C1_Witness ==
    /\ call.op = "onSearchTextChanged"
    /\ Quiescent
    /\ search # <<>>
    /\ \E j, k \in 1..Len(MergedView) :
          /\ MergedView[j].hidden = "true"
          /\ MergedView[k].hidden = "false"

-----------------------------------------------------------------------------
(* Toggle *)

\* C2: toggleSelected(itemName, currentFlag) sets the Selected Map entry of
\* itemName to NOT currentFlag and leaves every other entry as it was just
\* before the call.
C2_ToggleWritesOneEntry ==
    [][(Quiescent /\ call'.op = "toggleSelected") =>
          /\ selectedAtom'[call'.itemName] = JSNot(call'.currentFlag)
          /\ \A n \in Names \ {call'.itemName} : selectedAtom'[n] = selectedAtom[n]
      ]_vars

C2_Witness ==
    /\ call.op = "toggleSelected"
    /\ \E n \in Names \ {call.itemName} : selectedAtom[n] = "true"

-----------------------------------------------------------------------------
(* Order *)

\* C3: the Merged View is as long as the Source List and its k-th option has
\* the name and the payload of the k-th Source List option, whatever the two
\* maps hold; the same is true of the list the components last rendered.
C3_MergedKeepsOrder ==
    /\ Len(MergedView) = Len(inputOptionsAtom)
    /\ Len(options) = Len(inputOptionsAtom)
    /\ \A k \in 1..Len(inputOptionsAtom) :
          /\ k \in DOMAIN options
          /\ MergedView[k].name = inputOptionsAtom[k].name
          /\ MergedView[k].value = inputOptionsAtom[k].value
          /\ options[k].name = inputOptionsAtom[k].name
          /\ options[k].value = inputOptionsAtom[k].value

C3_Witness ==
    /\ Len(inputOptionsAtom) = 2
    /\ inputOptionsAtom[1].name # inputOptionsAtom[2].name
    /\ MergedView[1].hidden = "true"
    /\ MergedView[2].selected = "true"
    /\ options = MergedView

-----------------------------------------------------------------------------
(* Default flags *)

\* C4 (as stated): an option whose name has no Hidden Map entry has the
\* merged hidden flag false, and one whose name has no Selected Map entry has
\* the merged selected flag false.
C4_AbsentIsFalse ==
    \A k \in 1..Len(MergedView) :
        /\ hiddenAtom[inputOptionsAtom[k].name] = Undefined
              => MergedView[k].hidden = "false"
        /\ selectedAtom[inputOptionsAtom[k].name] = Undefined
              => MergedView[k].selected = "false"

\* C4 (amended): an option whose name has no Hidden Map entry has the merged
\* hidden flag undefined, and one whose name has no Selected Map entry has the
\* merged selected flag undefined, whatever flags the supplied option carried;
\* undefined is falsy, so the option is rendered, and rendered unchecked.
C4_AbsentIsUndefined ==
    \A k \in 1..Len(MergedView) :
        /\ hiddenAtom[inputOptionsAtom[k].name] = Undefined
              => /\ MergedView[k].hidden = Undefined
                 /\ ListItem(MergedView[k]) # <<>>
        /\ selectedAtom[inputOptionsAtom[k].name] = Undefined
              => /\ MergedView[k].selected = Undefined
                 /\ \A r \in 1..Len(ListItem(MergedView[k])) :
                       ListItem(MergedView[k])[r].checked = "false"

C4_Witness ==
    /\ call.op = "setSourceList"
    /\ \E k \in 1..Len(inputOptionsAtom) :
          /\ inputOptionsAtom[k].hidden = "true"
          /\ inputOptionsAtom[k].selected = "true"
          /\ hiddenAtom[inputOptionsAtom[k].name] = Undefined
          /\ selectedAtom[inputOptionsAtom[k].name] = Undefined

-----------------------------------------------------------------------------
(* Visible items *)

\* the options of the rows List renders
VisibleItems == [r \in 1..Len(List(options)) |-> List(options)[r].option]

\* C5: visibleItems is the Merged View restricted, in order, to the options
\* whose hidden flag is not true; no option with hidden = true is in it.
C5_VisibleIsNotHidden ==
    /\ VisibleItems = SelectSeq(MergedView, LAMBDA o : o.hidden # "true")
    /\ \A r \in 1..Len(VisibleItems) : VisibleItems[r].hidden # "true"

C5_Witness ==
    /\ Len(MergedView) = 2
    /\ MergedView[1].hidden = "true"
    /\ MergedView[2].hidden = "false"
    /\ Len(VisibleItems) = 1

-----------------------------------------------------------------------------
(* Toggle pairing *)

\* two consecutive toggles of one name, the second passing NOT the first flag
TogglePair ==
    /\ Quiescent
    /\ call.op = "toggleSelected"
    /\ call'.op = "toggleSelected"
    /\ call'.itemName = call.itemName
    /\ ToBoolean(call'.currentFlag) = JSNot(call.currentFlag)

\* C6 (as stated): toggleSelected(n, f) followed at once by
\* toggleSelected(n, NOT f) leaves the Selected Map entry of n equal to what
\* it was before the first call.
C6_PairRestoresEntry ==
    [][TogglePair => selectedAtom'[call'.itemName] = call.before]_vars

\* C6 (amended): toggling a rendered option and toggling it again leaves the
\* Selected Map entry of its name with the truth value it had before the
\* first toggle; the entry is then the boolean false or true, also when there
\* was no entry before.
C6_PairRestoresTruth ==
    [][TogglePair =>
          /\ selectedAtom'[call'.itemName] = ToBoolean(call.before)
          /\ call'.before = JSNot(call.before)
      ]_vars

C6_Witness ==
    /\ call.op = "toggleSelected"
    /\ call.again
    /\ call.before = "true"
    /\ selectedAtom[call.itemName] = "false"
    /\ Quiescent

-----------------------------------------------------------------------------
(* The conditional write of the filter *)

\* the map the effect computes for the current Source List and search text
ComputedHidden ==
    [n \in Names |->
        IF n \in NamesOf(inputOptionsAtom)
        THEN JSBool(~Includes(n, search))
        ELSE Undefined]

\* a step of Search's effect that writes the Hidden Map
EffectWrites == effectPending /\ hiddenAtom' # hiddenAtom

\* a step of Search's effect that does not
EffectSkips == effectPending /\ ~effectPending'

\* C7 (as stated): the effect writes the Hidden Map if and only if the map it
\* computed differs from the current Hidden Map in at least one entry, absent
\* keys read as false; otherwise the Hidden Map is left as it is.
C7_WritesIffMapsDiffer ==
    [][(effectPending /\ call.op = "onSearchTextChanged") =>
          /\ EffectWrites <=>
                \E n \in Names :
                    ToBoolean(ComputedHidden[n]) # ToBoolean(hiddenAtom[n])
          /\ EffectSkips => hiddenAtom' = hiddenAtom
      ]_vars

\* C7 (amended): the effect writes the Hidden Map if and only if the map it
\* computed differs from the current Hidden Map, absent keys read as false, at
\* the name of at least one option of the current Source List; it then writes
\* the whole computed map, and otherwise leaves the Hidden Map as it is.
C7_WritesIffListedDiffer ==
    [][effectPending =>
          /\ EffectWrites <=>
                \E n \in NamesOf(inputOptionsAtom) :
                    ToBoolean(ComputedHidden[n]) # ToBoolean(hiddenAtom[n])
          /\ EffectWrites => hiddenAtom' = ComputedHidden
          /\ EffectSkips => hiddenAtom' = hiddenAtom
          /\ EffectWrites \/ EffectSkips
      ]_vars

\* the effect has run and left a true entry for a name no longer listed
C7_Witness ==
    /\ Quiescent
    /\ inputOptionsAtom # <<>>
    /\ \E n \in Names \ NamesOf(inputOptionsAtom) : hiddenAtom[n] = "true"

-----------------------------------------------------------------------------
(* Each operation writes its own slice *)

\* C8: setSourceList leaves the Hidden Map and the Selected Map unchanged,
\* onSearchTextChanged (the change handler and the effect) leaves the Source
\* List and the Selected Map unchanged, toggleSelected leaves the Source List
\* and the Hidden Map unchanged, and after every step the rendered Merged View
\* is the merge of the three atoms.
C8_OwnSliceOnly ==
    [][/\ (Quiescent /\ call'.op = "setSourceList")
              => UNCHANGED <<hiddenAtom, selectedAtom>>
       /\ (Quiescent /\ call'.op = "onSearchTextChanged")
              => UNCHANGED <<inputOptionsAtom, hiddenAtom, selectedAtom>>
       /\ effectPending
              => UNCHANGED <<inputOptionsAtom, selectedAtom>>
       /\ (Quiescent /\ call'.op = "toggleSelected")
              => UNCHANGED <<inputOptionsAtom, hiddenAtom>>
       /\ options' = combinedUpdatesAtomGet(inputOptionsAtom', hiddenAtom', selectedAtom')
      ]_vars

C8_Witness ==
    /\ call.op = "setSourceList"
    /\ inputOptionsAtom # <<>>
    /\ \E n \in Names : hiddenAtom[n] = "true"
    /\ \E n \in Names : selectedAtom[n] = "true"

-----------------------------------------------------------------------------
(* Replacing the Source List *)

\* C9: after setSourceList(items) the Source List is items, and the Merged
\* View the components read next is the merge of items with the two maps.
C9_SourceListReplaced ==
    call.op = "setSourceList" =>
        /\ inputOptionsAtom = call.items
        /\ options = combinedUpdatesAtomGet(call.items, hiddenAtom, selectedAtom)

\* a one-item list has replaced a list that held another name
C9_Witness ==
    /\ call.op = "setSourceList"
    /\ Len(call.items) = 1
    /\ Len(options) = 1
    /\ \E n \in Names \ NamesOf(call.items) : hiddenAtom[n] # Undefined

\* C10: every option of the Merged View and every visible option is an option
\* of the Source List, so entries of the two maps for other names show
\* nowhere; with an empty Source List nothing is visible.
C10_OnlySourceItemsShown ==
    /\ \A k \in 1..Len(MergedView) :
          \E j \in 1..Len(inputOptionsAtom) :
              /\ MergedView[k].name = inputOptionsAtom[j].name
              /\ MergedView[k].value = inputOptionsAtom[j].value
    /\ \A r \in 1..Len(VisibleItems) :
          \E j \in 1..Len(inputOptionsAtom) :
              /\ VisibleItems[r].name = inputOptionsAtom[j].name
              /\ VisibleItems[r].value = inputOptionsAtom[j].value
    /\ inputOptionsAtom = <<>> => VisibleItems = <<>>
    /\ (call.op = "setSourceList" /\ call.items = <<>>) => VisibleItems = <<>>

C10_Witness ==
    /\ call.op = "setSourceList"
    /\ call.items = <<>>
    /\ VisibleItems = <<>>
    /\ \E n \in Names : hiddenAtom[n] = "true"
    /\ \E n \in Names : selectedAtom[n] = "true"

-----------------------------------------------------------------------------
(* Empty search text *)

\* C12 (as stated): once onSearchTextChanged("") has completed, the Hidden
\* Map holds the entry false for every option of the Source List.
C12_EmptyTextAllFalse ==
    (call.op = "onSearchTextChanged" /\ Quiescent /\ search = <<>>) =>
        \A n \in NamesOf(inputOptionsAtom) : hiddenAtom[n] = "false"

\* C12 (amended): once onSearchTextChanged("") has completed, no option of
\* the Source List is hidden: the Hidden Map entry of each is false or
\* absent, never true, and every option is rendered.
C12_EmptyTextNothingHidden ==
    (call.op = "onSearchTextChanged" /\ Quiescent /\ search = <<>>) =>
        /\ \A n \in NamesOf(inputOptionsAtom) : hiddenAtom[n] \in {"false", Undefined}
        /\ Len(VisibleItems) = Len(inputOptionsAtom)

\* the text was cleared and an option is shown without a Hidden Map entry
C12_Witness ==
    /\ call.op = "onSearchTextChanged"
    /\ Quiescent
    /\ search = <<>>
    /\ \E n \in NamesOf(inputOptionsAtom) : hiddenAtom[n] = Undefined
    /\ Len(VisibleItems) = 2

-----------------------------------------------------------------------------
(* Keys are written for listed names *)

\* C13: whenever a step writes a key of the Hidden Map (the effect replaces
\* the whole map) or of the Selected Map (a toggle sets one entry), the key
\* is the name of an option of the Source List at that moment; so every key
\* either map holds was a listed name when it was written.
C13_KeysWrittenWhileListed ==
    [][/\ hiddenAtom' # hiddenAtom =>
            \A n \in Names :
                hiddenAtom'[n] # Undefined => n \in NamesOf(inputOptionsAtom)
       /\ \A n \in Names :
            selectedAtom'[n] # selectedAtom[n] =>
                /\ selectedAtom'[n] # Undefined
                /\ n \in NamesOf(inputOptionsAtom)
      ]_vars

\* both maps hold a key for a name that is not listed any more
C13_Witness ==
    /\ \E n \in Names \ NamesOf(inputOptionsAtom) : hiddenAtom[n] # Undefined
    /\ \E n \in Names \ NamesOf(inputOptionsAtom) : selectedAtom[n] # Undefined
    /\ inputOptionsAtom # <<>>

-----------------------------------------------------------------------------
(* The filter and the render *)

\* the rendered list shows a hidden flag that is not the one of the text
Stale ==
    \E k \in 1..Len(options) :
        ~(Truthy(options[k].hidden) <=> ~Includes(options[k].name, search))

\* C15 (as stated): there is no state in which the search text has changed
\* and the rendered list still carries the hidden flags of the text before.
C15_NeverStale == call.op = "onSearchTextChanged" => ~Stale

\* C15 (amended): the rendered list carries hidden flags of an earlier text
\* only while Search's effect is pending; nothing else runs before the effect
\* and its first run writes the Hidden Map, after which the rendered flags
\* are those of the current text.
C15_StaleUntilEffect == [][Stale => (effectPending /\ ~Stale')]_vars

C15_Witness ==
    /\ call.op = "onSearchTextChanged"
    /\ Stale
    /\ effectPending
    /\ \E k \in 1..Len(options) : options[k].hidden = "true"

-----------------------------------------------------------------------------
(* The filter reaction ends *)

\* C16: after one operation Search's effect writes the Hidden Map at most
\* once; the run after a write finds no option that differs, and a run that
\* finds none writes nothing and leaves no further run scheduled.
C16_AtMostOneWrite ==
    [][/\ call'.writes <= 1
       /\ (effectPending /\ hiddenAtom' # hiddenAtom)
              => ~SearchSome(options', SearchUpdates(options', search'))
       /\ (effectPending /\ hiddenAtom' = hiddenAtom) => ~effectPending'
      ]_vars

\* the effect has written once and come to rest, for a list with one name twice
C16_Witness ==
    /\ Quiescent
    /\ call.writes = 1
    /\ Len(inputOptionsAtom) = 2
    /\ inputOptionsAtom[1].name = inputOptionsAtom[2].name
    /\ inputOptionsAtom[1] # inputOptionsAtom[2]

-----------------------------------------------------------------------------
(* A new list under a standing search text *)

\* C18 (as stated): with a non-empty search text t standing, after
\* setSourceList(L') and the effect that follows it the merged hidden flag of
\* every option of L' is the boolean NOT (name contains t).
C18_NewListHiddenIsNotContains ==
    (call.op = "setSourceList" /\ Quiescent /\ search # <<>>) =>
        \A k \in 1..Len(MergedView) :
            MergedView[k].hidden = JSBool(~Includes(call.items[k].name, search))

\* C18 (amended): with a non-empty search text t standing, after
\* setSourceList(L') and the effect that follows it the merged hidden flag of
\* every option of L', read as a boolean (undefined counts as false), is
\* NOT (name contains t), and the options rendered are those of L' that
\* contain t.
C18_NewListFiltered ==
    (call.op = "setSourceList" /\ Quiescent /\ search # <<>>) =>
        /\ Len(MergedView) = Len(call.items)
        /\ \A k \in 1..Len(MergedView) :
              Truthy(MergedView[k].hidden) <=> ~Includes(call.items[k].name, search)
        /\ \A r \in 1..Len(VisibleItems) : Includes(VisibleItems[r].name, search)

\* the effect has filtered a new list without the text changing
C18_Witness ==
    /\ call.op = "setSourceList"
    /\ Quiescent
    /\ search # <<>>
    /\ call.writes = 1
    /\ Len(call.items) = 2
    /\ MergedView[1].hidden = "false"
    /\ MergedView[2].hidden = "true"

-----------------------------------------------------------------------------
(* Flags carried by the supplied options *)

\* C19: the merged hidden and selected flags of an option are the Hidden Map
\* and Selected Map entries of its name, in the store and in the rendered
\* list, whatever hidden or selected field the supplied option carries.
C19_FlagsComeFromMaps ==
    /\ Len(options) = Len(inputOptionsAtom)
    /\ \A k \in 1..Len(inputOptionsAtom) :
          /\ MergedView[k].hidden = hiddenAtom[inputOptionsAtom[k].name]
          /\ MergedView[k].selected = selectedAtom[inputOptionsAtom[k].name]
          /\ k \in DOMAIN options
          /\ options[k].hidden = hiddenAtom[inputOptionsAtom[k].name]
          /\ options[k].selected = selectedAtom[inputOptionsAtom[k].name]

\* an option supplied with hidden and selected true is shown, unchecked
C19_Witness ==
    \E k \in 1..Len(inputOptionsAtom) :
        /\ inputOptionsAtom[k].hidden = "true"
        /\ inputOptionsAtom[k].selected = "true"
        /\ options[k].hidden = "false"
        /\ options[k].selected = "false"
        /\ Quiescent

-----------------------------------------------------------------------------
(* Options that share a name *)

\* C20: two options of the Source List with the same name have the same
\* merged hidden and selected flags, and a toggle of either sets the
\* selected flag of both to NOT the flag shown.
C20_SameNameSameFlags ==
    [][/\ \A j, k \in 1..Len(options') :
            options'[j].name = options'[k].name =>
                /\ options'[j].hidden = options'[k].hidden
                /\ options'[j].selected = options'[k].selected
       /\ (Quiescent /\ call'.op = "toggleSelected") =>
            \A k \in 1..Len(options') :
                options'[k].name = call'.itemName =>
                    /\ options'[k].selected = JSNot(call'.currentFlag)
                    /\ options'[k].selected # options[k].selected
      ]_vars

\* two options named alike, supplied with different flags, toggled to selected
C20_Witness ==
    /\ call.op = "toggleSelected"
    /\ Len(options) = 2
    /\ inputOptionsAtom[1].name = inputOptionsAtom[2].name
    /\ inputOptionsAtom[1].selected # inputOptionsAtom[2].selected
    /\ options[1].selected = "true"
    /\ options[2].selected = "true"

-----------------------------------------------------------------------------
(* Toggles issued from one render *)

\* C17: two toggles on two different options both take effect even when the
\* second is issued from the same rendered snapshot of the Selected Map as
\* the first: afterwards both names carry their toggled value.
C17_BothTogglesTakeEffect ==
    (/\ call.op = "toggleSelectedBatch"
     /\ call.items[1].name # call.items[2].name) =>
        /\ selectedAtom[call.items[1].name] = JSNot(call.items[1].selected)
        /\ selectedAtom[call.items[2].name] = JSNot(call.items[2].selected)

-----------------------------------------------------------------------------
(* The derived read *)

-----------------------------------------------------------------------------
(* Two sessions *)

\* C11: two picker sessions are isolated: an operation on one Picker leaves
\* the Source List, Hidden Map, Selected Map and Merged View of the other
\* Picker as they were, and turning from one Picker to the other changes
\* those of neither.
C11_SessionsIsolated ==
    [][\A p \in Pickers :
          (p # focus \/ focus' # focus) =>
              /\ StoreValues(p)' = StoreValues(p)
              /\ StoreMergedView(p)' = StoreMergedView(p)
      ]_vars

\* both Pickers have been used: their lists, hidden maps and selected maps
\* differ, and the one used last has just had an option toggled
C11_Witness ==
    /\ focus = "second"
    /\ call.op = "toggleSelected"
    /\ background.inputOptionsAtom # <<>>
    /\ inputOptionsAtom # background.inputOptionsAtom
    /\ \E n \in Names : background.hiddenAtom[n] = "true" /\ hiddenAtom[n] # "true"
    /\ \E n \in Names : background.selectedAtom[n] = "true" /\ selectedAtom[n] # "true"

-----------------------------------------------------------------------------
(* The composed picker against the monolithic one *)

\* C21: given the same Source List, the same search-text changes and the
\* same single clicks, once Search's effect has run the composed picker
\* renders the same names in the same order as the monolithic picker with
\* search, and every rendered checkbox has the same checked state.
C21_SameRowsAsBefore ==
    Quiescent =>
        /\ Len(List(options)) = Len(BeforeRows)
        /\ \A r \in 1..Len(BeforeRows) :
              /\ r \in DOMAIN List(options)
              /\ List(options)[r].option.name = BeforeRows[r].option.name
              /\ List(options)[r].checked = ToBoolean(BeforeRows[r].checked)

\* a text hides one of two options and the one shown has been checked and
\* unchecked again, while the hidden one was checked before the text came
C21_Witness ==
    /\ Quiescent
    /\ search # <<>>
    /\ Len(before.options) = 2
    /\ Len(BeforeRows) = 1
    /\ BeforeRows[1].checked = "false"
    /\ \E n \in Names : before.selectedItems[n] = "true"
    /\ call.op = "toggleSelected"

-----------------------------------------------------------------------------
(* One click that reaches two handlers *)

\* a step in which a checkbox is clicked in both pickers
CheckboxClick ==
    /\ Quiescent
    /\ call'.op = "toggleSelectedBatch"
    /\ call'.items[1] = call'.items[2]

\* what the composed picker stores after the click: one toggle
ToggledOnce ==
    /\ selectedAtom'[call'.itemName] = JSNot(call'.currentFlag)
    /\ \A n \in Names \ {call'.itemName} : selectedAtom'[n] = selectedAtom[n]

\* C22 (as stated): toggleSelected invoked twice with the same name and the
\* same currentFlag from one render leaves the Selected Map that one
\* invocation leaves; the monolithic picker's handler, invoked twice, leaves
\* the entry it found.
C22_OnceHereOriginalThere ==
    [][CheckboxClick =>
          /\ ToggledOnce
          /\ before'.selectedItems = before.selectedItems
      ]_vars

\* C22 (amended): toggleSelected invoked twice with the same name and the
\* same currentFlag from one render leaves the Selected Map that one
\* invocation leaves; the monolithic picker's handler, invoked twice, leaves
\* the truth value it found: the entry is false where there was none or
\* false, true where it was true, and no other entry changes.
C22_OnceHereOriginalTruthThere ==
    [][CheckboxClick =>
          /\ ToggledOnce
          /\ before'.selectedItems[call'.itemName] =
                ToBoolean(before.selectedItems[call'.itemName])
          /\ \A n \in Names \ {call'.itemName} :
                before'.selectedItems[n] = before.selectedItems[n]
      ]_vars

\* a checkbox was clicked where nothing was selected: the composed picker
\* has the option selected, the monolithic one has an entry false
C22_Witness ==
    /\ call.op = "toggleSelectedBatch"
    /\ call.items[1] = call.items[2]
    /\ call.before = Undefined
    /\ selectedAtom[call.itemName] = "true"
    /\ before.selectedItems[call.itemName] = "false"

=============================================================================
